---------------------------- MODULE Spec2Model ----------------------------
(***************************************************************************)
(* Model of the GPU register interface of rustation (src/src/gpu/mod.rs):  *)
(* the GP0 command interpreter, the GP1 control commands, the register     *)
(* state they maintain, the status word and the CommandBuffer.             *)
(*                                                                         *)
(* The Gpu struct is the record variable gpu, one field per field of the   *)
(* struct, under the source's names.  Every method of the impl is an       *)
(* operator from a call context (the struct, the panic raised so far and   *)
(* the instrumentation of the call) to the context after the call.         *)
(***************************************************************************)
EXTENDS Integers, Sequences, FiniteSets, TLC

VARIABLES
    gpu,      \* the Gpu struct (mod.rs:5-90), renderer included
    panic,    \* "none", or the panic that aborted the session
    write,    \* the last register write and what it did (instrumentation)
    nwrites   \* the number of writes counted against MaxWrites

vars == <<gpu, panic, write, nwrites>>

---------------------------------------------------------------------------
(* 32-bit words.  A u32 is the pair <<high half, low half>> of its 16-bit  *)
(* halves, so that every bit of a register word is kept; u8 and u16 values *)
(* are integers.  The operators below are Rust's on u32, u16 and i16.      *)

Half == 2 ^ 16

\* the u32 with the given halves, e.g. W(\hE100, \h0508) for 0xE1000508
W(hi, lo) == <<hi, lo>>

\* an integer literal n < 2^31 as u32
U(n) == <<n \div Half, n % Half>>

\* a u32 known to be below 2^31, as an integer
AsInt(v) == v[1] * Half + v[2]

RECURSIVE BitAnd(_, _)
\* a & b on non-negative integers
BitAnd(a, b) ==
    IF a = 0 \/ b = 0 THEN 0
    ELSE (a % 2) * (b % 2) + 2 * BitAnd(a \div 2, b \div 2)

RECURSIVE BitOr(_, _)
\* a | b on non-negative integers
BitOr(a, b) ==
    IF a = 0 THEN b
    ELSE IF b = 0 THEN a
    ELSE (IF a % 2 = 1 \/ b % 2 = 1 THEN 1 ELSE 0)
         + 2 * BitOr(a \div 2, b \div 2)

\* a & b, a | b and !a on u32
And32(a, b) == <<BitAnd(a[1], b[1]), BitAnd(a[2], b[2])>>
Or32(a, b) == <<BitOr(a[1], b[1]), BitOr(a[2], b[2])>>
Not32(a) == <<(Half - 1) - a[1], (Half - 1) - a[2]>>

\* a >> n on u32, 0 <= n < 32
Shr32(a, n) ==
    IF n >= 16 THEN <<0, a[1] \div (2 ^ (n - 16))>>
    ELSE <<a[1] \div (2 ^ n),
           (a[2] \div (2 ^ n)) + (a[1] % (2 ^ n)) * (2 ^ (16 - n))>>

\* a << n on u32, 0 <= n < 32: the bits shifted out are lost
Shl32(a, n) ==
    IF n >= 16 THEN <<(a[2] * (2 ^ (n - 16))) % Half, 0>>
    ELSE <<(a[1] * (2 ^ n) + (a[2] * (2 ^ n)) \div Half) % Half,
           (a[2] * (2 ^ n)) % Half>>

\* a + b on u32: the wrapped sum, and whether it overflowed
Add32(a, b) ==
    LET lo == a[2] + b[2]
        hi == a[1] + b[1] + lo \div Half
    IN  [v |-> <<hi % Half, lo % Half>>, ovf |-> hi >= Half]

\* the four bytes of a u32, least significant first
Bytes(a) == <<a[2] % 256, a[2] \div 256, a[1] % 256, a[1] \div 256>>

\* a * b on u32, by long multiplication on bytes: the wrapped product, and
\* whether it overflowed
Mul32(a, b) ==
    LET x == Bytes(a)
        y == Bytes(b)
        s0 == x[1] * y[1]
        s1 == x[1] * y[2] + x[2] * y[1] + s0 \div 256
        s2 == x[1] * y[3] + x[2] * y[2] + x[3] * y[1] + s1 \div 256
        s3 == x[1] * y[4] + x[2] * y[3] + x[3] * y[2] + x[4] * y[1]
              + s2 \div 256
        above == s3 \div 256
                 + x[2] * y[4] + x[3] * y[3] + x[4] * y[2]
                 + x[3] * y[4] + x[4] * y[3]
                 + x[4] * y[4]
    IN  [v |-> <<(s3 % 256) * 256 + (s2 % 256),
                (s1 % 256) * 256 + (s0 % 256)>>,
         ovf |-> above # 0]

\* (val >> sh) & mask for a mask below 2^16: the source's field extraction
Field(val, sh, mask) == AsInt(And32(Shr32(val, sh), U(mask)))

\* a << n on u16
Shl16(a, n) == (a * (2 ^ n)) % Half

\* v as u8, v as u16: truncation
AsU8(v) == v % 256
AsU16(v) == v % Half

\* v as i16 of a u16 bit pattern: reinterpretation as two's complement
AsI16(v) == IF v % Half >= 32768 THEN (v % Half) - Half ELSE v % Half

\* a >> n on i16: arithmetic shift, rounds towards minus infinity
SarI16(a, n) == a \div (2 ^ n)

\* b as u32 of a bool
BoolAsU32(b) == IF b THEN U(1) ELSE U(0)

---------------------------------------------------------------------------
(* Enumerations, with their discriminants (`as u32`).                      *)

TextureDepthAsU32(d) ==
    CASE d = "T4Bit" -> 0 [] d = "T8Bit" -> 1 [] d = "T15Bit" -> 2

FieldAsU32(f) == CASE f = "Top" -> 1 [] f = "Bottom" -> 0

VerticalResAsU32(v) == CASE v = "Y240Lines" -> 0 [] v = "Y480Lines" -> 1

VModeAsU32(v) == CASE v = "Ntsc" -> 0 [] v = "Pal" -> 1

DisplayDepthAsU32(d) == CASE d = "D15Bits" -> 0 [] d = "D24Bits" -> 1

DmaDirectionAsU32(d) ==
    CASE d = "Off" -> 0 [] d = "Fifo" -> 1
      [] d = "CpuToGp0" -> 2 [] d = "VRamToCpu" -> 3

\* a variant of HorizontalRes_from_fields with the two fields packed the
\* other way round
HorizontalRes_from_fields_swapped(hr1, hr2) ==
    BitOr(BitAnd(hr1, 3), Shl16(BitAnd(hr2, 1), 2)) % 256

\* HorizontalRes::from_fields: the tuple struct is modelled by its u8
HorizontalRes_from_fields(hr1, hr2) ==
    BitOr(BitAnd(hr2, 1), AsU8(BitAnd(hr1, 3) * 2))

\* HorizontalRes::into_status
HorizontalRes_into_status(hr) == Shl32(U(hr), 16)

---------------------------------------------------------------------------
(* CommandBuffer (mod.rs:690-730): a 12-word array and a length.           *)

\* the capacity of CommandBuffer::buffer
BufferCapacity == 12

CommandBuffer_new ==
    [buffer |-> [i \in 0..(BufferCapacity - 1) |-> U(0)], len |-> 0]

\* clear() resets the length only: the array keeps the old words
CommandBuffer_clear(cb) == [cb EXCEPT !.len = 0]

\* push_word panics (array bounds check) when the buffer is full
CommandBuffer_push_panics(cb) == cb.len >= BufferCapacity

CommandBuffer_push_word(cb, word) ==
    [buffer |-> [cb.buffer EXCEPT ![cb.len] = word],
     len |-> AsU8(cb.len + 1)]

\* a variant of CommandBuffer_index_panics that checks the index against
\* the capacity of the array
CommandBuffer_index_panics_capacity(cb, index) == index >= BufferCapacity

\* Index::index panics when index >= len
CommandBuffer_index_panics(cb, index) == index >= cb.len

CommandBuffer_index(cb, index) == cb.buffer[index]

---------------------------------------------------------------------------
(* The renderer (gpu::opengl, an external collaborator): a recording       *)
(* double that keeps the draw offset and the calls of the current write.   *)

Renderer_new == [draw_offset |-> <<0, 0>>, calls |-> <<>>]

Renderer_set_draw_offset(r, x, y) ==
    [draw_offset |-> <<x, y>>,
     calls |-> Append(r.calls, [call |-> "set_draw_offset", x |-> x, y |-> y])]

Renderer_display(r) ==
    [r EXCEPT !.calls = Append(r.calls, [call |-> "display"])]

Renderer_push_triangle(r, positions, colors) ==
    [r EXCEPT !.calls = Append(r.calls,
        [call |-> "push_triangle", positions |-> positions, colors |-> colors])]

Renderer_push_quad(r, positions, colors) ==
    [r EXCEPT !.calls = Append(r.calls,
        [call |-> "push_quad", positions |-> positions, colors |-> colors])]

\* Position::from_gp0: low half is the signed x, high half the signed y
Position_from_gp0(val) == <<AsI16(val[2]), AsI16(val[1])>>

\* Color::from_gp0: one byte per channel of the low 24 bits
Color_from_gp0(val) ==
    <<Field(val, 16, 255), Field(val, 8, 255), Field(val, 0, 255)>>

\* Color(0x80, 0x00, 0x00), the placeholder of textured primitives
PlaceholderColor == <<128, 0, 0>>

---------------------------------------------------------------------------
(* Gpu::new (mod.rs:93-135).                                               *)

Gpu_new(renderer) ==
    [renderer |-> renderer,
     page_base_x |-> 0,
     page_base_y |-> 0,
     rectangle_texture_x_flip |-> FALSE,
     rectangle_texture_y_flip |-> FALSE,
     semi_transparency |-> 0,
     texture_depth |-> "T4Bit",
     texture_window_x_mask |-> 0,
     texture_window_y_mask |-> 0,
     texture_window_x_offset |-> 0,
     texture_window_y_offset |-> 0,
     dithering |-> FALSE,
     draw_to_display |-> FALSE,
     force_set_mask_bit |-> FALSE,
     preserve_masked_pixels |-> FALSE,
     drawing_area_left |-> 0,
     drawing_area_top |-> 0,
     drawing_area_right |-> 0,
     drawing_area_bottom |-> 0,
     field |-> "Top",
     texture_disable |-> FALSE,
     hres |-> HorizontalRes_from_fields(0, 0),
     vres |-> "Y240Lines",
     vmode |-> "Ntsc",
     display_depth |-> "D15Bits",
     interlaced |-> FALSE,
     display_disabled |-> TRUE,
     display_vram_x_start |-> 0,
     display_vram_y_start |-> 0,
     display_horiz_start |-> 512,
     display_horiz_end |-> 3072,
     display_line_start |-> 16,
     display_line_end |-> 256,
     interrupt |-> FALSE,
     dma_direction |-> "Off",
     gp0_command |-> CommandBuffer_new,
     gp0_words_remaining |-> 0,
     gp0_command_method |-> "gp0_nop",
     gp0_mode |-> "Command"]

---------------------------------------------------------------------------
(* Gpu::status (mod.rs:138-196).                                           *)

\* the match on dma_direction of lines 181-191, given r so far
status_dma_request(self, r) ==
    CASE self.dma_direction = "Off" -> U(0)
      [] self.dma_direction = "Fifo" -> U(1)
      [] self.dma_direction = "CpuToGp0" -> And32(Shr32(r, 28), U(1))
      [] self.dma_direction = "VRamToCpu" -> And32(Shr32(r, 27), U(1))

\* a variant of status_vres that reports the vertical resolution in bit 19
status_vres_reported(self) == Shl32(U(VerticalResAsU32(self.vres)), 19)

\* lines 153-155: the line that would report vres in bit 19 is commented
\* out, so vres contributes nothing
status_vres(self) == U(0)

status(self) ==
    LET r1  == Or32(U(0), Shl32(U(self.page_base_x), 0))
        r2  == Or32(r1, Shl32(U(self.page_base_y), 4))
        r3  == Or32(r2, Shl32(U(self.semi_transparency), 5))
        r4  == Or32(r3, Shl32(U(TextureDepthAsU32(self.texture_depth)), 7))
        r5  == Or32(r4, Shl32(BoolAsU32(self.dithering), 9))
        r6  == Or32(r5, Shl32(BoolAsU32(self.draw_to_display), 10))
        r7  == Or32(r6, Shl32(BoolAsU32(self.force_set_mask_bit), 11))
        r8  == Or32(r7, Shl32(BoolAsU32(self.preserve_masked_pixels), 12))
        r9  == Or32(r8, Shl32(U(FieldAsU32(self.field)), 13))
        r10 == Or32(r9, Shl32(BoolAsU32(self.texture_disable), 15))
        r11 == Or32(r10, HorizontalRes_into_status(self.hres))
        r11v == Or32(r11, status_vres(self))
        r12 == Or32(r11v, Shl32(U(VModeAsU32(self.vmode)), 20))
        r13 == Or32(r12, Shl32(U(DisplayDepthAsU32(self.display_depth)), 21))
        r14 == Or32(r13, Shl32(BoolAsU32(self.interlaced), 22))
        r15 == Or32(r14, Shl32(BoolAsU32(self.display_disabled), 23))
        r16 == Or32(r15, Shl32(BoolAsU32(self.interrupt), 24))
        r17 == Or32(r16, Shl32(U(1), 26))
        r18 == Or32(r17, Shl32(U(1), 27))
        r19 == Or32(r18, Shl32(U(1), 28))
        r20 == Or32(r19, Shl32(U(DmaDirectionAsU32(self.dma_direction)), 29))
        r21 == Or32(r20, Shl32(U(0), 31))
    IN  Or32(r21, Shl32(status_dma_request(self, r21), 25))

\* Gpu::read: not implemented, always 0
read(self) == U(0)

---------------------------------------------------------------------------
(* Call contexts.  self is the struct, panic the panic raised ("none"      *)
(* while the call is still running), decoded whether gp0 decoded the word  *)
(* as an opcode, ran the handler gp0 invoked ("none" when it invoked none).*)

Ctx(g) ==
    [self |-> [g EXCEPT !.renderer.calls = <<>>],
     panic |-> "none", decoded |-> FALSE, ran |-> "none"]

Panic(c, msg) == [c EXCEPT !.panic = msg]

\* self.gp0_command[i]
Cmd(c, i) == CommandBuffer_index(c.self.gp0_command, i)

\* whether one of the indexings self.gp0_command[i], i in idx, panics
CmdPanics(c, idx) ==
    \E i \in idx : CommandBuffer_index_panics(c.self.gp0_command, i)

IndexPanic == "Command buffer index out of range"

---------------------------------------------------------------------------
(* GP0 handlers (mod.rs:272-457).                                          *)

\* GP0(0x00): No Operation
gp0_nop(c) == c

\* GP0(0x01): Clear Cache
gp0_clear_cache(c) == c

\* GP0(0x28): Monochrome Opaque Quadrilateral
gp0_quad_mono_opaque(c) ==
    IF CmdPanics(c, {1, 2, 3, 4, 0}) THEN Panic(c, IndexPanic)
    ELSE LET positions == <<Position_from_gp0(Cmd(c, 1)),
                            Position_from_gp0(Cmd(c, 2)),
                            Position_from_gp0(Cmd(c, 3)),
                            Position_from_gp0(Cmd(c, 4))>>
             colors == [i \in 1..4 |-> Color_from_gp0(Cmd(c, 0))]
         IN  [c EXCEPT !.self.renderer =
                 Renderer_push_quad(c.self.renderer, positions, colors)]

\* GP0(0x2C): Textured Opaque Quadrilateral
gp0_quad_texture_blend_opaque(c) ==
    IF CmdPanics(c, {1, 3, 5, 7}) THEN Panic(c, IndexPanic)
    ELSE LET positions == <<Position_from_gp0(Cmd(c, 1)),
                            Position_from_gp0(Cmd(c, 3)),
                            Position_from_gp0(Cmd(c, 5)),
                            Position_from_gp0(Cmd(c, 7))>>
             colors == [i \in 1..4 |-> PlaceholderColor]
         IN  [c EXCEPT !.self.renderer =
                 Renderer_push_quad(c.self.renderer, positions, colors)]

\* a variant of gp0_triangle_shaded_opaque that takes the colours from the
\* odd words and the positions from the even words
gp0_triangle_shaded_opaque_swapped(c) ==
    IF CmdPanics(c, {1, 3, 5, 0, 2, 4}) THEN Panic(c, IndexPanic)
    ELSE LET positions == <<Position_from_gp0(Cmd(c, 0)),
                            Position_from_gp0(Cmd(c, 2)),
                            Position_from_gp0(Cmd(c, 4))>>
             colors == <<Color_from_gp0(Cmd(c, 1)),
                         Color_from_gp0(Cmd(c, 3)),
                         Color_from_gp0(Cmd(c, 5))>>
         IN  [c EXCEPT !.self.renderer =
                 Renderer_push_triangle(c.self.renderer, positions, colors)]

\* GP0(0x30): Shaded Opaque Triangle
gp0_triangle_shaded_opaque(c) ==
    IF CmdPanics(c, {1, 3, 5, 0, 2, 4}) THEN Panic(c, IndexPanic)
    ELSE LET positions == <<Position_from_gp0(Cmd(c, 1)),
                            Position_from_gp0(Cmd(c, 3)),
                            Position_from_gp0(Cmd(c, 5))>>
             colors == <<Color_from_gp0(Cmd(c, 0)),
                         Color_from_gp0(Cmd(c, 2)),
                         Color_from_gp0(Cmd(c, 4))>>
         IN  [c EXCEPT !.self.renderer =
                 Renderer_push_triangle(c.self.renderer, positions, colors)]

\* GP0(0x38): Shaded Opaque Quadrilateral
gp0_quad_shaded_opaque(c) ==
    IF CmdPanics(c, {1, 3, 5, 7, 0, 2, 4, 6}) THEN Panic(c, IndexPanic)
    ELSE LET positions == <<Position_from_gp0(Cmd(c, 1)),
                            Position_from_gp0(Cmd(c, 3)),
                            Position_from_gp0(Cmd(c, 5)),
                            Position_from_gp0(Cmd(c, 7))>>
             colors == <<Color_from_gp0(Cmd(c, 0)),
                         Color_from_gp0(Cmd(c, 2)),
                         Color_from_gp0(Cmd(c, 4)),
                         Color_from_gp0(Cmd(c, 6))>>
         IN  [c EXCEPT !.self.renderer =
                 Renderer_push_quad(c.self.renderer, positions, colors)]

\* the number of payload words of a width x height image (lines 354-366):
\* the u32 computed, and whether the arithmetic overflowed
image_load_words(res) ==
    LET width   == And32(res, U(65535))
        height  == Shr32(res, 16)
        imgsize == Mul32(width, height)
        plus1   == Add32(imgsize.v, U(1))
        rounded == And32(plus1.v, Not32(U(1)))
    IN  [v |-> Shr32(rounded, 1), ovf |-> imgsize.ovf \/ plus1.ovf]

\* GP0(0xA0): Image Load.  An overflowing multiplication or addition
\* panics in a build with overflow checks.
gp0_image_load(c) ==
    IF CmdPanics(c, {2}) THEN Panic(c, IndexPanic)
    ELSE LET n == image_load_words(Cmd(c, 2))
         IN  IF n.ovf THEN Panic(c, "arithmetic overflow")
             ELSE [c EXCEPT !.self.gp0_words_remaining = AsInt(n.v),
                            !.self.gp0_mode = "ImageLoad"]

\* GP0(0xC0): Image Store: prints a diagnostic only
gp0_image_store(c) ==
    IF CmdPanics(c, {2}) THEN Panic(c, IndexPanic) ELSE c

\* GP0(0xE1): Draw Mode.  The three fields assigned before the match on
\* the texture depth are already written when the match panics.
gp0_draw_mode(c) ==
    IF CmdPanics(c, {0}) THEN Panic(c, IndexPanic)
    ELSE LET val == Cmd(c, 0)
             c1 == [c EXCEPT
                 !.self.page_base_x = AsU8(Field(val, 0, 15)),
                 !.self.page_base_y = AsU8(Field(val, 4, 1)),
                 !.self.semi_transparency = AsU8(Field(val, 5, 3))]
             depth == Field(val, 7, 3)
         IN  IF depth \notin {0, 1, 2}
             THEN Panic(c1, "Unhandled texture depth")
             ELSE [c1 EXCEPT
                 !.self.texture_depth =
                     CASE depth = 0 -> "T4Bit"
                       [] depth = 1 -> "T8Bit"
                       [] depth = 2 -> "T15Bit",
                 !.self.dithering = (Field(val, 9, 1) # 0),
                 !.self.draw_to_display = (Field(val, 10, 1) # 0),
                 !.self.texture_disable = (Field(val, 11, 1) # 0),
                 !.self.rectangle_texture_x_flip = (Field(val, 12, 1) # 0),
                 !.self.rectangle_texture_y_flip = (Field(val, 13, 1) # 0)]

\* GP0(0xE2): Set Texture Window
gp0_texture_window(c) ==
    IF CmdPanics(c, {0}) THEN Panic(c, IndexPanic)
    ELSE LET val == Cmd(c, 0)
         IN  [c EXCEPT
                 !.self.texture_window_x_mask = AsU8(Field(val, 0, 31)),
                 !.self.texture_window_y_mask = AsU8(Field(val, 5, 31)),
                 !.self.texture_window_x_offset = AsU8(Field(val, 10, 31)),
                 !.self.texture_window_y_offset = AsU8(Field(val, 15, 31))]

\* GP0(0xE3): Set Drawing Area top left
gp0_drawing_area_top_left(c) ==
    IF CmdPanics(c, {0}) THEN Panic(c, IndexPanic)
    ELSE LET val == Cmd(c, 0)
         IN  [c EXCEPT
                 !.self.drawing_area_top = AsU16(Field(val, 10, 1023)),
                 !.self.drawing_area_left = AsU16(Field(val, 0, 1023))]

\* GP0(0xE4): Set Drawing Area bottom right
\* (first a variant that stores the corner in the top left fields)
gp0_drawing_area_bottom_right_as_top_left(c) ==
    IF CmdPanics(c, {0}) THEN Panic(c, IndexPanic)
    ELSE LET val == Cmd(c, 0)
         IN  [c EXCEPT
                 !.self.drawing_area_top = AsU16(Field(val, 10, 1023)),
                 !.self.drawing_area_left = AsU16(Field(val, 0, 1023))]

gp0_drawing_area_bottom_right(c) ==
    IF CmdPanics(c, {0}) THEN Panic(c, IndexPanic)
    ELSE LET val == Cmd(c, 0)
         IN  [c EXCEPT
                 !.self.drawing_area_bottom = AsU16(Field(val, 10, 1023)),
                 !.self.drawing_area_right = AsU16(Field(val, 0, 1023))]

\* a variant of gp0_drawing_offset that passes the fields on without the
\* sign extension
gp0_drawing_offset_unsigned(c) ==
    IF CmdPanics(c, {0}) THEN Panic(c, IndexPanic)
    ELSE LET val == Cmd(c, 0)
             x == AsU16(Field(val, 0, 2047))
             y == AsU16(Field(val, 11, 2047))
         IN  [c EXCEPT !.self.renderer =
                 Renderer_display(
                     Renderer_set_draw_offset(c.self.renderer, x, y))]

\* GP0(0xE5): Set Drawing Offset
gp0_drawing_offset(c) ==
    IF CmdPanics(c, {0}) THEN Panic(c, IndexPanic)
    ELSE LET val == Cmd(c, 0)
             x0 == AsU16(Field(val, 0, 2047))
             y0 == AsU16(Field(val, 11, 2047))
             x == SarI16(AsI16(Shl16(x0, 5)), 5)
             y == SarI16(AsI16(Shl16(y0, 5)), 5)
         IN  [c EXCEPT !.self.renderer =
                 Renderer_display(
                     Renderer_set_draw_offset(c.self.renderer, x, y))]

\* GP0(0xE6): Set Mask Bit Setting
gp0_mask_bit_setting_swapped(c) ==
    IF CmdPanics(c, {0}) THEN Panic(c, IndexPanic)
    ELSE LET val == Cmd(c, 0)
         IN  [c EXCEPT
                 !.self.force_set_mask_bit = (Field(val, 0, 2) # 0),
                 !.self.preserve_masked_pixels = (Field(val, 0, 1) # 0)]

gp0_mask_bit_setting(c) ==
    IF CmdPanics(c, {0}) THEN Panic(c, IndexPanic)
    ELSE LET val == Cmd(c, 0)
         IN  [c EXCEPT
                 !.self.force_set_mask_bit = (Field(val, 0, 1) # 0),
                 !.self.preserve_masked_pixels = (Field(val, 0, 2) # 0)]

---------------------------------------------------------------------------
(* Gpu::gp0 (mod.rs:206-270).                                              *)

\* the opcode table of lines 212-242; len 0 stands for the `_` arm
gp0_table(opcode) ==
    CASE opcode = \h00 -> [len |-> 1, method |-> "gp0_nop"]
      [] opcode = \h01 -> [len |-> 1, method |-> "gp0_clear_cache"]
      [] opcode = \h28 -> [len |-> 5, method |-> "gp0_quad_mono_opaque"]
      [] opcode = \h2C ->
             [len |-> 9, method |-> "gp0_quad_texture_blend_opaque"]
      [] opcode = \h30 -> [len |-> 6, method |-> "gp0_triangle_shaded_opaque"]
      [] opcode = \h38 -> [len |-> 8, method |-> "gp0_quad_shaded_opaque"]
      [] opcode = \hA0 -> [len |-> 3, method |-> "gp0_image_load"]
      [] opcode = \hC0 -> [len |-> 3, method |-> "gp0_image_store"]
      [] opcode = \hE1 -> [len |-> 1, method |-> "gp0_draw_mode"]
      [] opcode = \hE2 -> [len |-> 1, method |-> "gp0_texture_window"]
      [] opcode = \hE3 -> [len |-> 1, method |-> "gp0_drawing_area_top_left"]
      [] opcode = \hE4 ->
             [len |-> 1, method |-> "gp0_drawing_area_bottom_right"]
      [] opcode = \hE5 -> [len |-> 1, method |-> "gp0_drawing_offset"]
      [] opcode = \hE6 -> [len |-> 1, method |-> "gp0_mask_bit_setting"]
      [] OTHER -> [len |-> 0, method |-> "unhandled"]

\* (self.gp0_command_method)(self): the call through the function pointer
gp0_call(method, c) ==
    CASE method = "gp0_nop" -> gp0_nop(c)
      [] method = "gp0_clear_cache" -> gp0_clear_cache(c)
      [] method = "gp0_quad_mono_opaque" -> gp0_quad_mono_opaque(c)
      [] method = "gp0_quad_texture_blend_opaque" ->
             gp0_quad_texture_blend_opaque(c)
      [] method = "gp0_triangle_shaded_opaque" ->
             gp0_triangle_shaded_opaque(c)
      [] method = "gp0_quad_shaded_opaque" -> gp0_quad_shaded_opaque(c)
      [] method = "gp0_image_load" -> gp0_image_load(c)
      [] method = "gp0_image_store" -> gp0_image_store(c)
      [] method = "gp0_draw_mode" -> gp0_draw_mode(c)
      [] method = "gp0_texture_window" -> gp0_texture_window(c)
      [] method = "gp0_drawing_area_top_left" ->
             gp0_drawing_area_top_left(c)
      [] method = "gp0_drawing_area_bottom_right" ->
             gp0_drawing_area_bottom_right(c)
      [] method = "gp0_drawing_offset" -> gp0_drawing_offset(c)
      [] method = "gp0_mask_bit_setting" -> gp0_mask_bit_setting(c)

\* a variant of gp0_start that decodes every word as an opcode, pending
\* command or not
gp0_start_always(c, val) ==
    LET opcode == Field(val, 24, 255)
        e == gp0_table(opcode)
    IN  IF e.len = 0 THEN Panic(c, "Unhandled GP0 command")
        ELSE [c EXCEPT
            !.decoded = TRUE,
            !.self.gp0_words_remaining = e.len,
            !.self.gp0_command_method = e.method,
            !.self.gp0_command = CommandBuffer_clear(c.self.gp0_command)]

\* lines 207-248: with no word remaining, the word starts a new command
gp0_start(c, val) ==
    IF c.self.gp0_words_remaining = 0
    THEN LET opcode == Field(val, 24, 255)
             e == gp0_table(opcode)
         IN  IF e.len = 0 THEN Panic(c, "Unhandled GP0 command")
             ELSE [c EXCEPT
                 !.decoded = TRUE,
                 !.self.gp0_words_remaining = e.len,
                 !.self.gp0_command_method = e.method,
                 !.self.gp0_command = CommandBuffer_clear(c.self.gp0_command)]
    ELSE c

\* line 258: run the recorded handler
gp0_run(c) ==
    gp0_call(c.self.gp0_command_method,
             [c EXCEPT !.ran = c.self.gp0_command_method])

\* a variant of gp0_consume that runs the handler one word early as well
gp0_consume_early(c, val) ==
    IF c.self.gp0_words_remaining = 0 THEN Panic(c, "arithmetic overflow")
    ELSE LET c1 == [c EXCEPT !.self.gp0_words_remaining = @ - 1]
         IN  CASE c1.self.gp0_mode = "Command" ->
                    IF CommandBuffer_push_panics(c1.self.gp0_command)
                    THEN Panic(c1, "index out of bounds")
                    ELSE LET c2 == [c1 EXCEPT !.self.gp0_command =
                                 CommandBuffer_push_word(@, val)]
                         IN  IF c2.self.gp0_words_remaining <= 1
                             THEN gp0_run(c2)
                             ELSE c2
               [] c1.self.gp0_mode = "ImageLoad" ->
                    IF c1.self.gp0_words_remaining = 0
                    THEN [c1 EXCEPT !.self.gp0_mode = "Command"]
                    ELSE c1

\* lines 250-269: count the word and consume it according to the mode.
\* The decrement of a zero counter panics in a build with overflow checks.
gp0_consume(c, val) ==
    IF c.self.gp0_words_remaining = 0 THEN Panic(c, "arithmetic overflow")
    ELSE LET c1 == [c EXCEPT !.self.gp0_words_remaining = @ - 1]
         IN  CASE c1.self.gp0_mode = "Command" ->
                    IF CommandBuffer_push_panics(c1.self.gp0_command)
                    THEN Panic(c1, "index out of bounds")
                    ELSE LET c2 == [c1 EXCEPT !.self.gp0_command =
                                 CommandBuffer_push_word(@, val)]
                         IN  IF c2.self.gp0_words_remaining = 0
                             THEN gp0_run(c2)
                             ELSE c2
               [] c1.self.gp0_mode = "ImageLoad" ->
                    IF c1.self.gp0_words_remaining = 0
                    THEN [c1 EXCEPT !.self.gp0_mode = "Command"]
                    ELSE c1

gp0(c, val) ==
    LET c1 == gp0_start(c, val)
    IN  IF c1.panic # "none" THEN c1 ELSE gp0_consume(c1, val)

---------------------------------------------------------------------------
(* Gpu::gp1 and its handlers (mod.rs:460-602).                             *)

\* a variant of gp1_acknowledge_irq that also drops the pending GP0 command
gp1_acknowledge_irq_flushes(c) ==
    [c EXCEPT !.self.interrupt = FALSE,
              !.self.gp0_command = CommandBuffer_clear(@),
              !.self.gp0_words_remaining = 0]

\* GP1(0x02): Acknowledge Interrupt
\* a variant of gp1_acknowledge_irq that raises the interrupt
gp1_acknowledge_irq_raises(c) == [c EXCEPT !.self.interrupt = TRUE]

gp1_acknowledge_irq(c) == [c EXCEPT !.self.interrupt = FALSE]

\* a variant of gp1_reset_command_buffer that leaves the word count alone
gp1_reset_command_buffer_keeps_count(c) ==
    [c EXCEPT !.self.gp0_command = CommandBuffer_clear(@),
              !.self.gp0_mode = "Command"]

\* a variant of gp1_reset_command_buffer that leaves the mode alone
gp1_reset_command_buffer_keeps_mode(c) ==
    [c EXCEPT !.self.gp0_command = CommandBuffer_clear(@),
              !.self.gp0_words_remaining = 0]

\* GP1(0x01): Reset Command Buffer
gp1_reset_command_buffer(c) ==
    [c EXCEPT !.self.gp0_command = CommandBuffer_clear(@),
              !.self.gp0_words_remaining = 0,
              !.self.gp0_mode = "Command"]

\* GP1(0x00): Soft Reset
gp1_reset(c, val) ==
    LET c1 == [c EXCEPT
            !.self.page_base_x = 0,
            !.self.page_base_y = 0,
            !.self.semi_transparency = 0,
            !.self.texture_depth = "T4Bit",
            !.self.texture_window_x_mask = 0,
            !.self.texture_window_y_mask = 0,
            !.self.texture_window_x_offset = 0,
            !.self.texture_window_y_offset = 0,
            !.self.dithering = FALSE,
            !.self.draw_to_display = FALSE,
            !.self.texture_disable = FALSE,
            !.self.rectangle_texture_x_flip = FALSE,
            !.self.rectangle_texture_y_flip = FALSE,
            !.self.drawing_area_left = 0,
            !.self.drawing_area_top = 0,
            !.self.drawing_area_right = 0,
            !.self.drawing_area_bottom = 0,
            !.self.force_set_mask_bit = FALSE,
            !.self.preserve_masked_pixels = FALSE,
            !.self.dma_direction = "Off",
            !.self.display_disabled = TRUE,
            !.self.display_vram_x_start = 0,
            !.self.display_vram_y_start = 0,
            !.self.hres = HorizontalRes_from_fields(0, 0),
            !.self.vres = "Y240Lines",
            !.self.vmode = "Ntsc",
            !.self.interlaced = TRUE,
            !.self.display_horiz_start = 512,
            !.self.display_horiz_end = 3072,
            !.self.display_line_start = 16,
            !.self.display_line_end = 256,
            !.self.display_depth = "D15Bits",
            !.self.renderer = Renderer_set_draw_offset(@, 0, 0)]
    IN  gp1_acknowledge_irq(gp1_reset_command_buffer(c1))

\* GP1(0x03): Display Enable
gp1_display_enable(c, val) ==
    [c EXCEPT !.self.display_disabled = (Field(val, 0, 1) # 0)]

\* a variant of gp1_dma_direction with the arms 2 and 3 exchanged
gp1_dma_direction_swapped(c, val) ==
    LET d == Field(val, 0, 3)
    IN  [c EXCEPT !.self.dma_direction =
            CASE d = 0 -> "Off"
              [] d = 1 -> "Fifo"
              [] d = 2 -> "VRamToCpu"
              [] d = 3 -> "CpuToGp0"]

\* GP1(0x04): DMA Direction
gp1_dma_direction(c, val) ==
    LET d == Field(val, 0, 3)
    IN  [c EXCEPT !.self.dma_direction =
            CASE d = 0 -> "Off"
              [] d = 1 -> "Fifo"
              [] d = 2 -> "CpuToGp0"
              [] d = 3 -> "VRamToCpu"]

\* GP1(0x05): Display VRAM Start
gp1_display_vram_start_odd(c, val) ==
    [c EXCEPT !.self.display_vram_x_start = AsU16(Field(val, 0, 1023)),
              !.self.display_vram_y_start = AsU16(Field(val, 10, 511))]

gp1_display_vram_start(c, val) ==
    [c EXCEPT !.self.display_vram_x_start = AsU16(Field(val, 0, 1022)),
              !.self.display_vram_y_start = AsU16(Field(val, 10, 511))]

\* GP1(0x06): Display Horizontal Range
gp1_display_horizontal_range(c, val) ==
    [c EXCEPT !.self.display_horiz_start = AsU16(Field(val, 0, 4095)),
              !.self.display_horiz_end = AsU16(Field(val, 12, 4095))]

\* GP1(0x07): Display Vertical Range
gp1_display_vertical_range(c, val) ==
    [c EXCEPT !.self.display_line_start = AsU16(Field(val, 0, 1023)),
              !.self.display_line_end = AsU16(Field(val, 10, 1023))]

\* a variant of gp1_display_mode without the check of bit 7
gp1_display_mode_lenient(c, val) ==
    LET hr1 == AsU8(Field(val, 0, 3))
        hr2 == AsU8(Field(val, 6, 1))
    IN  [c EXCEPT
            !.self.hres = HorizontalRes_from_fields(hr1, hr2),
            !.self.vres = IF Field(val, 0, 4) # 0
                          THEN "Y480Lines" ELSE "Y240Lines",
            !.self.vmode = IF Field(val, 0, 8) # 0 THEN "Pal" ELSE "Ntsc",
            !.self.display_depth = IF Field(val, 0, 16) # 0
                                   THEN "D15Bits" ELSE "D24Bits",
            !.self.interlaced = (Field(val, 0, 32) # 0)]

\* GP1(0x08): Display Mode.  Every field is written before the check of
\* bit 7 panics.
gp1_display_mode(c, val) ==
    LET hr1 == AsU8(Field(val, 0, 3))
        hr2 == AsU8(Field(val, 6, 1))
        c1 == [c EXCEPT
            !.self.hres = HorizontalRes_from_fields(hr1, hr2),
            !.self.vres = IF Field(val, 0, 4) # 0
                          THEN "Y480Lines" ELSE "Y240Lines",
            !.self.vmode = IF Field(val, 0, 8) # 0 THEN "Pal" ELSE "Ntsc",
            !.self.display_depth = IF Field(val, 0, 16) # 0
                                   THEN "D15Bits" ELSE "D24Bits",
            !.self.interlaced = (Field(val, 0, 32) # 0)]
    IN  IF Field(val, 0, 128) # 0
        THEN Panic(c1, "Unsupported display mode")
        ELSE c1

gp1(c, val) ==
    LET opcode == Field(val, 24, 255)
    IN  CASE opcode = \h00 -> gp1_reset(c, val)
          [] opcode = \h01 -> gp1_reset_command_buffer(c)
          [] opcode = \h02 -> gp1_acknowledge_irq(c)
          [] opcode = \h03 -> gp1_display_enable(c, val)
          [] opcode = \h04 -> gp1_dma_direction(c, val)
          [] opcode = \h05 -> gp1_display_vram_start(c, val)
          [] opcode = \h06 -> gp1_display_horizontal_range(c, val)
          [] opcode = \h07 -> gp1_display_vertical_range(c, val)
          [] opcode = \h08 -> gp1_display_mode(c, val)
          [] OTHER -> Panic(c, "Unhandled GP1 command")

---------------------------------------------------------------------------
(* The register writes of the bus, as actions.  A panic aborts the         *)
(* session: no write follows it.                                           *)

\* what is recorded of a write: the register, the word, the interpreter's
\* counter and mode when the word arrived, whether gp0 decoded the word and
\* which handler it ran; and, for GP0, the opcode byte of the word that
\* started the command the word belongs to (a word that arrives while no
\* word is remaining starts a command) and the word's position in it
WriteRecord(reg, val, c) ==
    LET start == reg = "gp0" /\ gpu.gp0_words_remaining = 0
    IN  [reg |-> reg, val |-> val,
         words_before |-> gpu.gp0_words_remaining,
         mode_before |-> gpu.gp0_mode,
         decoded |-> c.decoded, ran |-> c.ran,
         opcode |-> IF start THEN Field(val, 24, 255) ELSE write.opcode,
         pos |-> IF start THEN 1
                 ELSE IF reg = "gp0" THEN write.pos + 1 ELSE write.pos]

Init ==
    /\ gpu = Gpu_new(Renderer_new)
    /\ panic = "none"
    /\ write = [reg |-> "none", val |-> U(0), words_before |-> 0,
                mode_before |-> "Command", decoded |-> FALSE, ran |-> "none",
                opcode |-> 0, pos |-> 0]
    /\ nwrites = 0

Gp0Write(val) ==
    /\ panic = "none"
    /\ LET c == gp0(Ctx(gpu), val)
       IN  /\ gpu' = c.self
           /\ panic' = c.panic
           /\ write' = WriteRecord("gp0", val, c)

Gp1Write(val) ==
    /\ panic = "none"
    /\ LET c == gp1(Ctx(gpu), val)
       IN  /\ gpu' = c.self
           /\ panic' = c.panic
           /\ write' = WriteRecord("gp1", val, c)

---------------------------------------------------------------------------
(* Spec: the GP0 command protocol.  When no command is pending the bus    *)
(* offers one word per multi-word opcode of the table, the no-ops, a mask  *)
(* setting, a draw mode with texture depth 3 and an unknown opcode.  The   *)
(* parameters of a pending command look like a mask-setting command, the   *)
(* third word of an image command is one of four sizes, and image payload  *)
(* looks like a mask-setting command or like an unknown opcode.            *)

\* largest image payload whose words the bus goes on to write
MaxPayload == 4

CommandWords ==
    { W(\h0000, \h0000), W(\h0100, \h0000), W(\h28FF, \h0000),
      W(\h2C12, \h3456), W(\h3000, \h00FF), W(\h3800, \hFF00),
      W(\hA000, \h0000), W(\hC000, \h0000),
      W(\hE100, \h0180), W(\hE600, \h0003), W(\h0200, \h0000) }

\* height << 16 | width: 0x0, 3x1, 4x2 and 0xFFFF x 0xFFFF
SizeWords ==
    { W(\h0000, \h0000), W(\h0001, \h0003), W(\h0002, \h0004),
      W(\hFFFF, \hFFFF) }

ParamWords == { W(\hE600, \h0003) }

PayloadWords == { W(\hE600, \h0003), W(\hFFFF, \hFFFF) }

Gp0Words ==
    IF gpu.gp0_words_remaining = 0 THEN CommandWords
    ELSE IF gpu.gp0_mode = "ImageLoad"
    THEN (IF gpu.gp0_words_remaining <= MaxPayload
          THEN PayloadWords ELSE {})
    ELSE IF gpu.gp0_command.len = 2
            /\ gpu.gp0_command_method \in {"gp0_image_load", "gp0_image_store"}
    THEN SizeWords
    ELSE ParamWords

Gp1Words ==
    { W(\h0000, \h0000), W(\h0100, \h0000), W(\h0200, \h0000),
      W(\h0900, \h0000) }

BusGp0 == \E val \in Gp0Words : Gp0Write(val) /\ UNCHANGED nwrites

BusGp1 == \E val \in Gp1Words : Gp1Write(val) /\ UNCHANGED nwrites

Next == BusGp0 \/ BusGp1

Spec == Init /\ [][Next]_vars

---------------------------------------------------------------------------
(* SpecRegs: the register file.  Up to MaxWrites writes of single-word     *)
(* GP0 commands and of GP1 commands whose low 24 bits are all clear, all   *)
(* set or alternating, and the display modes of GP1 0x08 with bit 7 clear. *)

\* the number of writes of a session of SpecRegs
MaxWrites == 2

\* low 24 bits: 0x000000, 0xFFFFFF, 0x555555, 0xAAAAAA
Patterns == { <<\h00, \h0000>>, <<\hFF, \hFFFF>>,
              <<\h55, \h5555>>, <<\hAA, \hAAAA>> }

\* the words of the opcodes ops with the low 24 bits of Patterns
PatternWords(ops) ==
    { W(op * 256 + p[1], p[2]) : op \in ops, p \in Patterns }

RegGp0Words == PatternWords({\hE1, \hE2, \hE3, \hE4, \hE5, \hE6})

DisplayModeWords ==
    { W(\h0800, m) : m \in {\h01, \h02, \h03, \h04, \h08, \h10, \h20,
                            \h40, \h41, \h42, \h43, \h7F} }

RegGp1Words ==
    PatternWords(0..8) \cup DisplayModeWords \cup { W(\h0900, \h0000) }

RegsGp0 ==
    /\ nwrites < MaxWrites
    /\ nwrites' = nwrites + 1
    /\ \E val \in RegGp0Words : Gp0Write(val)

RegsGp1 ==
    /\ nwrites < MaxWrites
    /\ nwrites' = nwrites + 1
    /\ \E val \in RegGp1Words : Gp1Write(val)

NextRegs == RegsGp0 \/ RegsGp1

SpecRegs == Init /\ [][NextRegs]_vars

---------------------------------------------------------------------------
(* SpecOffset: a sweep of GP0 0xE5.  Each write carries the x field that   *)
(* follows the x field of the word before it, modulo 2^11, with a y field  *)
(* equal to x or to its complement, so that every 11-bit value is written  *)
(* as x and as y.                                                          *)

\* 0xE5 << 24 | y << 11 | x
OffsetWord(x, y) ==
    W(\hE500 + (y * 2048 + x) \div Half, (y * 2048 + x) % Half)

OffsetWords ==
    LET x == (Field(write.val, 0, 2047) + 1) % 2048
    IN  { OffsetWord(x, y) : y \in {x, 2047 - x} }

SweepOffset == \E val \in OffsetWords : Gp0Write(val) /\ UNCHANGED nwrites

NextOffset == SweepOffset

SpecOffset == Init /\ [][NextOffset]_vars

---------------------------------------------------------------------------
(* SpecMix: GP1 writes between the words of GP0 commands.  GP0 carries a   *)
(* monochrome quad whose parameters differ by position, an image load of   *)
(* 3x1 pixels with its two payload words, and a mask setting; GP1 carries  *)
(* every opcode from 0x00 to 0x09 and a display mode with bit 7 set.       *)

MixCommandWords ==
    { W(\h28FF, \h0000), W(\hA000, \h0000), W(\hE600, \h0003) }

MixGp0Words ==
    IF gpu.gp0_words_remaining = 0 THEN MixCommandWords
    ELSE IF gpu.gp0_mode = "ImageLoad" THEN { W(\hFFFF, \hFFFF) }
    ELSE IF gpu.gp0_command.len = 2
            /\ gpu.gp0_command_method = "gp0_image_load"
    THEN { W(\h0001, \h0003) }
    ELSE { W(\hFFF0 + gpu.gp0_command.len, \h0010 + gpu.gp0_command.len) }

MixGp1Words ==
    { W(\h0000, \h0000), W(\h0100, \h0000), W(\h0200, \h0000),
      W(\h0300, \h0000), W(\h0400, \h0002), W(\h0500, \h0000),
      W(\h06C0, \h0200), W(\h0704, \h0010), W(\h0800, \h0010),
      W(\h0800, \h0008), W(\h0800, \h0080), W(\h0900, \h0000) }

MixGp0 == \E val \in MixGp0Words : Gp0Write(val) /\ UNCHANGED nwrites

MixGp1 == \E val \in MixGp1Words : Gp1Write(val) /\ UNCHANGED nwrites

NextMix == MixGp0 \/ MixGp1

SpecMix == Init /\ [][NextMix]_vars

---------------------------------------------------------------------------
(* SpecBuf: the CommandBuffer of a GPU driven directly by clear, push_word *)
(* and index.  The word pushed tells the number of clears so far and its   *)
(* position, so that a stale word differs from every word pushed since.    *)
(* write records the operation, the index read, the word read or pushed    *)
(* and the words pushed since the last clear.                              *)

\* the number of clears of a session of SpecBuf
MaxClears == 1

InitBuf ==
    /\ gpu = Gpu_new(Renderer_new)
    /\ panic = "none"
    /\ write = [reg |-> "new", val |-> U(0), index |-> 0, pushed |-> <<>>]
    /\ nwrites = 0

BufWords == { W(\hC000 + nwrites, \h0100 + gpu.gp0_command.len) }

BufClear ==
    /\ panic = "none"
    /\ nwrites < MaxClears
    /\ nwrites' = nwrites + 1
    /\ gpu' = [gpu EXCEPT !.gp0_command = CommandBuffer_clear(@)]
    /\ write' = [reg |-> "clear", val |-> U(0), index |-> 0, pushed |-> <<>>]
    /\ UNCHANGED panic

BufPush ==
    /\ panic = "none"
    /\ \E word \in BufWords :
          IF CommandBuffer_push_panics(gpu.gp0_command)
          THEN /\ panic' = "index out of bounds"
               /\ write' = [write EXCEPT !.reg = "push", !.val = word]
               /\ UNCHANGED gpu
          ELSE /\ gpu' = [gpu EXCEPT !.gp0_command =
                              CommandBuffer_push_word(@, word)]
               /\ write' = [reg |-> "push", val |-> word, index |-> 0,
                            pushed |-> Append(write.pushed, word)]
               /\ UNCHANGED panic
    /\ UNCHANGED nwrites

BufIndex ==
    /\ panic = "none"
    /\ \E i \in 0..BufferCapacity :
          IF CommandBuffer_index_panics(gpu.gp0_command, i)
          THEN /\ panic' = IndexPanic
               /\ write' = [write EXCEPT !.reg = "index", !.index = i]
          ELSE /\ write' = [write EXCEPT !.reg = "index", !.index = i,
                               !.val = CommandBuffer_index(gpu.gp0_command, i)]
               /\ UNCHANGED panic
    /\ UNCHANGED <<gpu, nwrites>>

NextBuf == BufClear \/ BufPush \/ BufIndex

SpecBuf == InitBuf /\ [][NextBuf]_vars

---------------------------------------------------------------------------
(* SpecDraw: sessions of up to MaxCommands drawing commands.  The first    *)
(* word of a command is one of two words per drawing opcode; the word at   *)
(* each later position is told by the position and by which of the two     *)
(* first words began the command, so that no two words of a command are    *)
(* alike.  nwrites counts the commands begun.                              *)

\* the number of drawing commands of a session of SpecDraw
MaxCommands == 2

DrawCommandWords ==
    { W(op * 256 + p[1], p[2]) :
        op \in {\h28, \h2C, \h30, \h38},
        p \in { <<\hFF, \h0000>>, <<\h12, \h3456>> } }

\* the word at position k of a command begun with the word first
DrawParam(first, k) ==
    IF first[2] = 0
    THEN W(k, \h0100 * k + \h00F0)
    ELSE W(\hFFFF - k, \h8000 + \h0101 * k)

DrawWords ==
    IF gpu.gp0_words_remaining = 0 THEN DrawCommandWords
    ELSE { DrawParam(CommandBuffer_index(gpu.gp0_command, 0),
                     gpu.gp0_command.len) }

DrawGp0 ==
    /\ gpu.gp0_words_remaining = 0 => nwrites < MaxCommands
    /\ nwrites' = IF gpu.gp0_words_remaining = 0 THEN nwrites + 1
                  ELSE nwrites
    /\ \E val \in DrawWords : Gp0Write(val)

NextDraw == DrawGp0

SpecDraw == Init /\ [][NextDraw]_vars

----------------------------------------------------------------------------
(* SpecFrame: the single-word GP0 commands over a register file that GP0   *)
(* and GP1 writes have moved away from its defaults.  Up to MaxFrameWrites *)
(* writes of the words of SpecRegs and of the two no-ops 0x00 and 0x01.    *)

\* the number of writes of a session of SpecFrame
MaxFrameWrites == 2

FrameGp0Words == RegGp0Words \cup PatternWords({\h00, \h01})

FrameGp0 ==
    /\ nwrites < MaxFrameWrites
    /\ nwrites' = nwrites + 1
    /\ \E val \in FrameGp0Words : Gp0Write(val)

FrameGp1 ==
    /\ nwrites < MaxFrameWrites
    /\ nwrites' = nwrites + 1
    /\ \E val \in RegGp1Words : Gp1Write(val)

NextFrame == FrameGp0 \/ FrameGp1

SpecFrame == Init /\ [][NextFrame]_vars

----------------------------------------------------------------------------
(* What the interface description says of the GP0 table and of the         *)
(* register set, used to state the properties below.                       *)

Opcode(val) == Field(val, 24, 255)

TableOpcodes ==
    {\h00, \h01, \h28, \h2C, \h30, \h38, \hA0, \hC0,
     \hE1, \hE2, \hE3, \hE4, \hE5, \hE6}

DeclaredWords(op) ==
    CASE op = \h28 -> 5
      [] op = \h2C -> 9
      [] op = \h30 -> 6
      [] op = \h38 -> 8
      [] op \in {\hA0, \hC0} -> 3
      [] OTHER -> 1

DeclaredHandler(op) ==
    CASE op = \h00 -> "gp0_nop"
      [] op = \h01 -> "gp0_clear_cache"
      [] op = \h28 -> "gp0_quad_mono_opaque"
      [] op = \h2C -> "gp0_quad_texture_blend_opaque"
      [] op = \h30 -> "gp0_triangle_shaded_opaque"
      [] op = \h38 -> "gp0_quad_shaded_opaque"
      [] op = \hA0 -> "gp0_image_load"
      [] op = \hC0 -> "gp0_image_store"
      [] op = \hE1 -> "gp0_draw_mode"
      [] op = \hE2 -> "gp0_texture_window"
      [] op = \hE3 -> "gp0_drawing_area_top_left"
      [] op = \hE4 -> "gp0_drawing_area_bottom_right"
      [] op = \hE5 -> "gp0_drawing_offset"
      [] op = \hE6 -> "gp0_mask_bit_setting"
      [] OTHER -> "none"

RegisterFields ==
    {"page_base_x", "page_base_y", "rectangle_texture_x_flip",
     "rectangle_texture_y_flip", "semi_transparency", "texture_depth",
     "texture_window_x_mask", "texture_window_y_mask",
     "texture_window_x_offset", "texture_window_y_offset", "dithering",
     "draw_to_display", "force_set_mask_bit", "preserve_masked_pixels",
     "drawing_area_left", "drawing_area_top", "drawing_area_right",
     "drawing_area_bottom", "field", "texture_disable", "hres", "vres",
     "vmode", "display_depth", "interlaced", "display_disabled",
     "display_vram_x_start", "display_vram_y_start", "display_horiz_start",
     "display_horiz_end", "display_line_start", "display_line_end",
     "interrupt", "dma_direction"}

RegisterState(g) == [f \in RegisterFields |-> g[f]]

\* ((width * height + 1) & ~1) / 2 over the integers, arranged so that no
\* intermediate value exceeds 2^31
ImageLoadCount(width, height) ==
    IF width % 2 = 0 THEN (width \div 2) * height
    ELSE IF height % 2 = 0 THEN width * (height \div 2)
    ELSE ((width - 1) \div 2) * height + (height + 1) \div 2

StatusBits(g, sh, mask) == Field(status(g), sh, mask)

Fresh == Gpu_new(Renderer_new)

----------------------------------------------------------------------------
(* Properties of the GP0 protocol, checked under Spec.                     *)

\* C1: whenever a GP0 command is started with no command pending and its
\* declared number of words is written, the handler of its opcode runs on
\* the last of those words and on no other, and the documented change is
\* made (for 0xE6: the two mask flags are taken from bits 0 and 1).
C1_HandlerRunsOnLastWord ==
    (write.reg = "gp0" /\ panic = "none") =>
        /\ write.pos = DeclaredWords(write.opcode)
              => write.ran = DeclaredHandler(write.opcode)
        /\ write.pos # DeclaredWords(write.opcode) => write.ran = "none"
        /\ write.opcode = \hE6 =>
              /\ gpu.force_set_mask_bit = (Field(write.val, 0, 1) = 1)
              /\ gpu.preserve_masked_pixels = (Field(write.val, 1, 1) = 1)

\* C2: a gp0 write that leaves a multi-word command incomplete (fewer than
\* its declared words written, words_remaining > 0) changes no RegisterState
\* field, does not change the GP0 mode, runs no handler and makes no
\* renderer call.
C2_NoEffectBeforeLastWord ==
    [][(/\ write'.reg = "gp0"
        /\ panic' = "none"
        /\ write'.pos < DeclaredWords(write'.opcode))
       => (/\ gpu'.gp0_words_remaining
                = DeclaredWords(write'.opcode) - write'.pos
           /\ gpu'.gp0_words_remaining > 0
           /\ RegisterState(gpu') = RegisterState(gpu)
           /\ gpu'.gp0_mode = gpu.gp0_mode
           /\ gpu'.renderer.calls = <<>>
           /\ gpu'.renderer.draw_offset = gpu.renderer.draw_offset
           /\ write'.ran = "none")]_vars

\* the eighth of the nine words of a textured quad has been written, its
\* value is that of a mask-bit command, and nothing has happened
C2_Witness ==
    /\ write.reg = "gp0"
    /\ write.opcode = \h2C
    /\ write.pos = 8
    /\ write.val = W(\hE600, \h0003)
    /\ gpu.gp0_words_remaining = 1
    /\ ~gpu.force_set_mask_bit
    /\ panic = "none"

\* C3: when the third word of an image-load command is received, the
\* interpreter is in ImageLoad mode with words_remaining
\* = ((width * height + 1) & ~1) / 2, and no overflow has stopped it.
C3_ImageLoadCount ==
    (write.reg = "gp0" /\ write.opcode = \hA0 /\ write.pos = 3) =>
        /\ panic = "none"
        /\ gpu.gp0_mode = "ImageLoad"
        /\ gpu.gp0_words_remaining
              = ImageLoadCount(write.val[2], write.val[1])

\* C4: from the third word of an image load on, the mode is ImageLoad
\* exactly while payload words are still due and Command once all of them
\* (possibly none) have been consumed; a payload word is counted, not
\* decoded, runs no handler and makes no renderer call.
C4_PayloadConsumed ==
    (write.reg = "gp0" /\ write.opcode = \hA0 /\ write.pos >= 3
        /\ panic = "none") =>
        /\ gpu.gp0_words_remaining = 0 => gpu.gp0_mode = "Command"
        /\ gpu.gp0_words_remaining > 0 => gpu.gp0_mode = "ImageLoad"
        /\ write.pos > 3 =>
              /\ write.mode_before = "ImageLoad"
              /\ write.words_before = gpu.gp0_words_remaining + 1
              /\ ~write.decoded
              /\ write.ran = "none"
              /\ gpu.renderer.calls = <<>>

\* C5: a GP1 soft reset or buffer reset leaves words_remaining = 0, the
\* CommandBuffer empty and the mode Command, whatever was pending; the gp0
\* word that follows it is taken as the first word of a new command and
\* decoded as an opcode (an opcode outside the table being fatal), so a
\* handler that runs on it is the handler of that new opcode.
C5_ResetDiscardsPending ==
    /\ [](write.reg = "gp1" /\ Opcode(write.val) \in {0, 1} =>
            /\ panic = "none"
            /\ gpu.gp0_words_remaining = 0
            /\ gpu.gp0_command.len = 0
            /\ gpu.gp0_mode = "Command"
            /\ write.ran = "none"
            /\ \A i \in DOMAIN gpu.renderer.calls :
                  gpu.renderer.calls[i].call
                      \notin {"push_triangle", "push_quad"})
    /\ [][(/\ write.reg = "gp1"
           /\ Opcode(write.val) \in {0, 1}
           /\ write'.reg = "gp0")
          => (/\ write'.pos = 1
              /\ write'.opcode = Opcode(write'.val)
              /\ write'.decoded \/ panic' = "Unhandled GP0 command"
              /\ write'.ran \in {"none", DeclaredHandler(Opcode(write'.val))}
              /\ write'.ran = "none" => (DeclaredWords(Opcode(write'.val)) > 1
                                         \/ panic' # "none"))]_vars

\* a buffer reset has just been issued part-way through an image payload
C5_Witness ==
    /\ write.reg = "gp1"
    /\ Opcode(write.val) = 1
    /\ write.mode_before = "ImageLoad"
    /\ write.words_before > 0
    /\ gpu.gp0_mode = "Command"

\* C7: a gp0 word written with no command pending is decoded as an opcode
\* when its top byte is in the GP0 table and is fatal when it is not; a gp0
\* word written while words are still due, parameter or image payload, is
\* not decoded and is not fatal.
C7_DecodeOnlyWhenIdle ==
    write.reg = "gp0" =>
        /\ (write.words_before = 0 /\ Opcode(write.val) \in TableOpcodes)
              => write.decoded /\ panic # "Unhandled GP0 command"
        /\ (write.words_before = 0 /\ Opcode(write.val) \notin TableOpcodes)
              => ~write.decoded /\ panic = "Unhandled GP0 command"
        /\ write.words_before > 0 => ~write.decoded /\ panic = "none"

\* the word 0xFFFFFFFF, whose top byte is no opcode, has been taken as a
\* parameter of a pending command
C7_Witness ==
    /\ write.reg = "gp0"
    /\ write.words_before > 0
    /\ write.mode_before = "Command"
    /\ write.val = W(\hFFFF, \hFFFF)
    /\ panic = "none"

----------------------------------------------------------------------------
(* Properties of the registers and of the status word, checked under       *)
(* SpecRegs.                                                               *)

\* C6: after a soft reset every RegisterState field, the interpreter state
\* and the renderer draw offset are those of a freshly constructed GPU, and
\* status() is the status of a freshly constructed GPU.
C6_ResetIsFresh ==
    (write.reg = "gp1" /\ Opcode(write.val) = 0) =>
        /\ RegisterState(gpu) = RegisterState(Fresh)
        /\ gpu.gp0_words_remaining = Fresh.gp0_words_remaining
        /\ gpu.gp0_command.len = Fresh.gp0_command.len
        /\ gpu.gp0_mode = Fresh.gp0_mode
        /\ gpu.renderer.draw_offset = Fresh.renderer.draw_offset
        /\ status(gpu) = status(Fresh)

\* C8: a GP0 0xE1..0xE6 or GP1 0x03..0x07 write is never fatal, and 0xE1
\* stores the texture depth given by bits 8:7 whatever their value.
C8_RegistersNeverReject ==
    (\/ write.reg = "gp0" /\ write.words_before = 0
           /\ Opcode(write.val) \in {\hE1, \hE2, \hE3, \hE4, \hE5, \hE6}
     \/ write.reg = "gp1" /\ Opcode(write.val) \in {3, 4, 5, 6, 7}) =>
        /\ panic = "none"
        /\ (write.reg = "gp0" /\ Opcode(write.val) = \hE1) =>
              /\ TextureDepthAsU32(gpu.texture_depth) = Field(write.val, 7, 3)
              /\ gpu.page_base_x = Field(write.val, 0, 15)

\* C9: status bits 30:29 are 0 at construction and after a soft reset, are
\* bits 1:0 of the word after a GP1 0x04 write and are left alone by every
\* other write; bit 25 is 0, 1, bit 28 or bit 27 according as bits 30:29
\* are Off (0), FIFO (1), CPU-to-GP0 (2) or VRAM-to-CPU (3).
C9_StatusDma ==
    /\ StatusBits(gpu, 29, 3) = 0
    /\ [](StatusBits(gpu, 25, 1) =
            CASE StatusBits(gpu, 29, 3) = 0 -> 0
              [] StatusBits(gpu, 29, 3) = 1 -> 1
              [] StatusBits(gpu, 29, 3) = 2 -> StatusBits(gpu, 28, 1)
              [] StatusBits(gpu, 29, 3) = 3 -> StatusBits(gpu, 27, 1))
    /\ [][StatusBits(gpu', 29, 3) =
            IF write'.reg = "gp1" /\ Opcode(write'.val) = 4
            THEN Field(write'.val, 0, 3)
            ELSE IF write'.reg = "gp1" /\ Opcode(write'.val) = 0
            THEN 0
            ELSE StatusBits(gpu, 29, 3)]_vars

\* GP1 0x04 has just selected VRAM-to-CPU and bit 25 follows bit 27
C9_Witness ==
    /\ write.reg = "gp1"
    /\ Opcode(write.val) = 4
    /\ Field(write.val, 0, 3) = 3
    /\ gpu.dma_direction = "VRamToCpu"
    /\ StatusBits(gpu, 29, 3) = 3
    /\ StatusBits(gpu, 25, 1) = 1

\* C10: status() always has bits 26, 27 and 28 set and bits 14, 19 and 31
\* clear.
C10_StatusFixedBits ==
    /\ StatusBits(gpu, 26, 7) = 7
    /\ StatusBits(gpu, 14, 1) = 0
    /\ StatusBits(gpu, 19, 1) = 0
    /\ StatusBits(gpu, 31, 1) = 0

\* GP1 0x08 has selected 480 lines and bit 19 is still 0
C10_Witness ==
    /\ write.reg = "gp1"
    /\ Opcode(write.val) = 8
    /\ panic = "none"
    /\ gpu.vres = "Y480Lines"
    /\ StatusBits(gpu, 19, 1) = 0

----------------------------------------------------------------------------
(* Properties of the drawing offset, checked under SpecOffset.             *)

\* an 11-bit field read as a two's-complement number
SignExtend11(v) == IF v < 1024 THEN v ELSE v - 2048

----------------------------------------------------------------------------
(* Properties of the display mode and of the status word, checked under    *)
(* SpecRegs.                                                               *)

\* C12: after GP1 0x08 with bit 7 clear, status bits 18:16 are
\* hr2 | hr1 << 1 with hr1 = bits 1:0 and hr2 = bit 6 of the word; and in
\* every state the status word is the status word of the same registers
\* with horizontal resolution code 0, whose bits 18:16 are clear, with the
\* code put in bits 18:16: the code touches no other bit.
C12_HresPacking ==
    /\ (write.reg = "gp1" /\ Opcode(write.val) = 8
            /\ Field(write.val, 7, 1) = 0) =>
          /\ panic = "none"
          /\ StatusBits(gpu, 16, 7) =
                Field(write.val, 6, 1) + 2 * Field(write.val, 0, 3)
    /\ LET s0 == status([gpu EXCEPT !.hres = 0])
           code == StatusBits(gpu, 16, 7)
       IN  /\ Field(s0, 16, 7) = 0
           /\ status(gpu) = <<s0[1] + code, s0[2]>>

\* GP1 0x08 has selected hr1 = 2, hr2 = 1: the code is 5
C12_Witness ==
    /\ write.reg = "gp1"
    /\ Opcode(write.val) = 8
    /\ Field(write.val, 0, 3) = 2
    /\ Field(write.val, 6, 1) = 1
    /\ Field(write.val, 7, 1) = 0
    /\ StatusBits(gpu, 16, 7) = 5

----------------------------------------------------------------------------
(* Properties of GP1 writes between GP0 words, checked under SpecMix.      *)

\* the registers that GP1 commands write
Gp1Fields ==
    {"field", "hres", "vres", "vmode", "display_depth", "interlaced",
     "display_disabled", "display_vram_x_start", "display_vram_y_start",
     "display_horiz_start", "display_horiz_end", "display_line_start",
     "display_line_end", "interrupt", "dma_direction"}

\* the registers that GP0 commands write
Gp0Owned(g) == [f \in RegisterFields \ Gp1Fields |-> g[f]]

\* the state of the GP0 interpreter
Interpreter(g) ==
    <<g.gp0_words_remaining, g.gp0_command_method, g.gp0_command, g.gp0_mode>>

\* g with the registers that GP1 commands write as they are at construction
Gp1Neutral(g) ==
    [f \in DOMAIN g |-> IF f \in Gp1Fields THEN Fresh[f] ELSE g[f]]

\* C13: a gp1 write is fatal exactly when its opcode is above 0x08, or is
\* 0x08 with bit 7 of the word set, whatever the GP0 interpreter is doing.
C13_Gp1FatalExactly ==
    write.reg = "gp1" =>
        /\ Opcode(write.val) > 8 <=> panic = "Unhandled GP1 command"
        /\ (Opcode(write.val) = 8 /\ Field(write.val, 7, 1) = 1)
              <=> panic = "Unsupported display mode"
        /\ panic \in {"none", "Unhandled GP1 command",
                      "Unsupported display mode"}

\* a display mode with bit 7 clear has been accepted part-way through an
\* image payload
C13_Witness ==
    /\ write.reg = "gp1"
    /\ Opcode(write.val) = 8
    /\ Field(write.val, 7, 1) = 0
    /\ write.mode_before = "ImageLoad"
    /\ write.words_before > 0
    /\ panic = "none"

\* C18: a GP1 write of opcode 0x02..0x08 leaves the interpreter
\* (words_remaining, recorded handler, CommandBuffer, mode), the registers
\* that GP0 writes and the renderer as they were; and what a gp0 write does
\* to the interpreter, to those registers and to the renderer is what it
\* does when the registers that GP1 writes have their values of
\* construction.
C18_Gp1LeavesGp0Alone ==
    /\ [][(write'.reg = "gp1" /\ Opcode(write'.val) \in 2..8)
          => (/\ Interpreter(gpu') = Interpreter(gpu)
              /\ Gp0Owned(gpu') = Gp0Owned(gpu)
              /\ gpu'.renderer.draw_offset = gpu.renderer.draw_offset
              /\ gpu'.renderer.calls = <<>>)]_vars
    /\ [][write'.reg = "gp0"
          => LET c0 == gp0(Ctx(Gp1Neutral(gpu)), write'.val)
             IN  /\ Interpreter(gpu') = Interpreter(c0.self)
                 /\ Gp0Owned(gpu') = Gp0Owned(c0.self)
                 /\ gpu'.renderer = c0.self.renderer
                 /\ write'.ran = c0.ran
                 /\ panic' = c0.panic]_vars

\* a display mode selecting PAL has been written between the third and
\* the fourth word of a quad, which still needs its two words
C18_Witness ==
    /\ write.reg = "gp1"
    /\ write.val = W(\h0800, \h0008)
    /\ write.mode_before = "Command"
    /\ write.words_before = 2
    /\ gpu.vmode = "Pal"
    /\ gpu.gp0_words_remaining = 2
    /\ gpu.gp0_command.len = 3
    /\ gpu.gp0_command_method = "gp0_quad_mono_opaque"

----------------------------------------------------------------------------
(* Properties of the CommandBuffer, checked under SpecBuf.                 *)

\* C14: the buffer holds the words pushed since the last clear, at most 12,
\* in push order; a push is fatal only as the 13th; index(i) returns the
\* i-th word pushed since the last clear when i is below the length and is
\* fatal otherwise, whatever the slot held before the clear.
C14_CommandBuffer ==
    /\ gpu.gp0_command.len = Len(write.pushed)
    /\ Len(write.pushed) <= 12
    /\ \A i \in 1..Len(write.pushed) :
          gpu.gp0_command.buffer[i - 1] = write.pushed[i]
    /\ write.reg = "push" =>
          \/ panic = "none"
          \/ panic = "index out of bounds" /\ Len(write.pushed) = 12
    /\ write.reg = "index" =>
          IF write.index < Len(write.pushed)
          THEN panic = "none" /\ write.val = write.pushed[write.index + 1]
          ELSE panic = IndexPanic

\* index has been called on a slot at or past the length that still holds a
\* word pushed before the clear, and was fatal
C14_Witness ==
    /\ write.reg = "index"
    /\ nwrites = 1
    /\ write.index >= Len(write.pushed)
    /\ write.index < 12
    /\ gpu.gp0_command.buffer[write.index] = W(\hC000, \h0100 + write.index)
    /\ panic = IndexPanic

----------------------------------------------------------------------------
(* Properties of the drawing commands, checked under SpecDraw.             *)

\* the position and the colour that word i of the CommandBuffer stands for
WordPosition(i) == Position_from_gp0(gpu.gp0_command.buffer[i])
WordColor(i) == Color_from_gp0(gpu.gp0_command.buffer[i])

----------------------------------------------------------------------------
(* Properties of the image store, checked under Spec.                      *)

\* C16: each of the three words of a GP0 0xC0 command is accepted without
\* a fatal error, changes no RegisterState field and not the GP0 mode and
\* makes no renderer call; after the third no word is due, and the gp0 word
\* that follows is decoded as the first word of a new command.
C16_ImageStoreStub ==
    /\ [][(write'.reg = "gp0" /\ write'.opcode = \hC0)
          => (/\ panic' = "none"
              /\ write'.pos <= 3
              /\ gpu'.gp0_words_remaining = 3 - write'.pos
              /\ RegisterState(gpu') = RegisterState(gpu)
              /\ gpu'.gp0_mode = gpu.gp0_mode
              /\ gpu'.renderer.calls = <<>>
              /\ gpu'.renderer.draw_offset = gpu.renderer.draw_offset)]_vars
    /\ [][(/\ write.reg = "gp0" /\ write.opcode = \hC0 /\ write.pos = 3
           /\ write'.reg = "gp0")
          => (/\ write'.pos = 1
              /\ write'.decoded \/ panic' = "Unhandled GP0 command")]_vars

----------------------------------------------------------------------------
(* Properties of the stored register fields, checked under SpecRegs.       *)

\* C17: in every reachable state every stored register field is within its
\* width: page base x <= 15, page base y <= 1, semi-transparency <= 3, each
\* texture-window mask and offset <= 31, each drawing-area edge <= 1023,
\* the VRAM display origin x even and <= 0x3FE and y <= 0x1FF, horizontal
\* range start and end <= 0xFFF, vertical range start and end <= 0x3FF and
\* the horizontal resolution code <= 7.
C17_FieldWidths ==
    /\ gpu.page_base_x \in 0..15
    /\ gpu.page_base_y \in 0..1
    /\ gpu.semi_transparency \in 0..3
    /\ gpu.texture_window_x_mask \in 0..31
    /\ gpu.texture_window_y_mask \in 0..31
    /\ gpu.texture_window_x_offset \in 0..31
    /\ gpu.texture_window_y_offset \in 0..31
    /\ gpu.drawing_area_left \in 0..1023
    /\ gpu.drawing_area_top \in 0..1023
    /\ gpu.drawing_area_right \in 0..1023
    /\ gpu.drawing_area_bottom \in 0..1023
    /\ gpu.display_vram_x_start \in 0..\h3FE
    /\ gpu.display_vram_x_start % 2 = 0
    /\ gpu.display_vram_y_start \in 0..\h1FF
    /\ gpu.display_horiz_start \in 0..\hFFF
    /\ gpu.display_horiz_end \in 0..\hFFF
    /\ gpu.display_line_start \in 0..\h3FF
    /\ gpu.display_line_end \in 0..\h3FF
    /\ gpu.hres \in 0..7

\* an all-ones GP1 0x05 word was truncated to the largest display origin
C17_Witness ==
    /\ write.reg = "gp1"
    /\ write.val = W(\h05FF, \hFFFF)
    /\ panic = "none"
    /\ gpu.display_vram_x_start = \h3FE
    /\ gpu.display_vram_y_start = \h1FF

\* C19: after GP1 0x08 with word v (bit 7 clear), status() bit 20 equals
\* bit 3 of v (NTSC = 0, PAL = 1), bit 21 equals bit 4 of v (15-bit = 0,
\* 24-bit = 1) and bit 22 equals bit 5 of v.
C19_DisplayModeStatus ==
    (/\ write.reg = "gp1"
     /\ Field(write.val, 24, 255) = \h08
     /\ Field(write.val, 7, 1) = 0)
    => /\ panic = "none"
       /\ StatusBits(gpu, 20, 1) = Field(write.val, 3, 1)
       /\ StatusBits(gpu, 21, 1) = Field(write.val, 4, 1)
       /\ StatusBits(gpu, 22, 1) = Field(write.val, 5, 1)

----------------------------------------------------------------------------
(* Properties of the single-word GP0 commands, checked under SpecFrame.    *)

\* the RegisterState fields the single-word GP0 command of an opcode owns
FieldGroup(op) ==
    CASE op = \hE1 -> {"page_base_x", "page_base_y", "semi_transparency",
                       "texture_depth", "dithering", "draw_to_display",
                       "texture_disable", "rectangle_texture_x_flip",
                       "rectangle_texture_y_flip"}
      [] op = \hE2 -> {"texture_window_x_mask", "texture_window_y_mask",
                       "texture_window_x_offset", "texture_window_y_offset"}
      [] op = \hE3 -> {"drawing_area_left", "drawing_area_top"}
      [] op = \hE4 -> {"drawing_area_right", "drawing_area_bottom"}
      [] op = \hE6 -> {"force_set_mask_bit", "preserve_masked_pixels"}
      [] OTHER -> {}

StateOpcodes == {\h00, \h01, \hE1, \hE2, \hE3, \hE4, \hE5, \hE6}

\* C21: a single-word GP0 state command changes no RegisterState field
\* outside its own group: 0xE2 only the four texture-window fields, 0xE3
\* only drawing-area left (bits 9:0) and top (bits 19:10), 0xE4 only
\* drawing-area right (bits 9:0) and bottom (bits 19:10), 0xE6 only the two
\* mask flags, 0xE1 only the draw-mode fields, 0xE5, 0x00 and 0x01 no
\* RegisterState field at all; only 0xE5 changes the renderer's offset.
C21_StateCommandFrame ==
    [][(/\ write'.reg = "gp0" /\ write'.pos = 1
        /\ write'.opcode \in StateOpcodes)
       => LET op == write'.opcode
              v == write'.val
          IN  /\ \A f \in RegisterFields \ FieldGroup(op) : gpu'[f] = gpu[f]
              /\ op # \hE5
                 => gpu'.renderer.draw_offset = gpu.renderer.draw_offset
              /\ op # \hE1 => panic' = "none"
              /\ op = \hE3
                 => /\ gpu'.drawing_area_left = Field(v, 0, 1023)
                    /\ gpu'.drawing_area_top = Field(v, 10, 1023)
              /\ op = \hE4
                 => /\ gpu'.drawing_area_right = Field(v, 0, 1023)
                    /\ gpu'.drawing_area_bottom = Field(v, 10, 1023)]_vars

\* GP0 0xE4 with alternating bits ran on a register file whose display
\* origin a GP1 0x05 had moved: the corner is stored, the rest is as before
C21_Witness ==
    /\ write.reg = "gp0"
    /\ write.val = W(\hE455, \h5555)
    /\ write.ran = "gp0_drawing_area_bottom_right"
    /\ gpu.drawing_area_right = \h155
    /\ gpu.drawing_area_bottom = \h155
    /\ gpu.drawing_area_left = 0
    /\ gpu.drawing_area_top = 0
    /\ gpu.display_vram_x_start = \h3FE

----------------------------------------------------------------------------
(* Properties of the GP0 interpreter's counters, checked under Spec.       *)

\* C22: between any two register writes the GP0 mode is ImageLoad only
\* while payload words are still expected: mode = ImageLoad implies
\* words_remaining > 0, and words_remaining = 0 implies mode = Command.
C22_ImageLoadModeHasPayload ==
    /\ gpu.gp0_mode = "ImageLoad" => gpu.gp0_words_remaining > 0
    /\ gpu.gp0_words_remaining = 0 => gpu.gp0_mode = "Command"

\* C23: no sequence of gp0 and gp1 writes reaches a buffer invariant
\* violation or a counter underflow: the CommandBuffer length never exceeds
\* 12, no push or index is out of bounds, a handler only runs when the
\* buffer holds exactly the declared word count of the opcode that started
\* the command, and words_remaining is decremented only when it is at
\* least 1.
C23_NoBufferViolation ==
    /\ gpu.gp0_command.len <= BufferCapacity
    /\ panic \notin {"index out of bounds", IndexPanic, "arithmetic overflow"}
    /\ (write.reg = "gp0" /\ write.ran # "none")
       => /\ write.opcode \in TableOpcodes
          /\ write.ran = DeclaredHandler(write.opcode)
          /\ gpu.gp0_command.len = DeclaredWords(write.opcode)
          /\ write.pos = DeclaredWords(write.opcode)
    /\ (write.reg = "gp0" /\ panic = "none")
       => IF write.decoded
          THEN write.words_before = 0 /\ DeclaredWords(write.opcode) >= 1
          ELSE write.words_before >= 1

\* the longest command of the table ran on its ninth word, with all nine
\* words in the buffer
C23_Witness ==
    /\ write.reg = "gp0"
    /\ write.opcode = \h2C
    /\ write.ran = "gp0_quad_texture_blend_opaque"
    /\ write.words_before = 1
    /\ gpu.gp0_command.len = 9
    /\ gpu.gp0_words_remaining = 0
    /\ panic = "none"

----------------------------------------------------------------------------
(* Properties of the control fields, checked under SpecRegs.               *)

\* C24: no GP0 or GP1 write sets the interrupt flag or changes the active
\* field: in every reachable state the interrupt flag is false and the
\* field is Top, so status() bit 24 is 0 and status() bit 13 is 1, whether
\* or not interlaced output is selected.
C24_InterruptAndFieldFixed ==
    /\ gpu.interrupt = FALSE
    /\ gpu.field = "Top"
    /\ StatusBits(gpu, 24, 1) = 0
    /\ StatusBits(gpu, 13, 1) = 1

\* an interrupt acknowledge was written after GP1 0x08 selected interlaced
\* output
C24_Witness ==
    /\ write.reg = "gp1"
    /\ Field(write.val, 24, 255) = \h02
    /\ panic = "none"
    /\ gpu.interlaced
    /\ StatusBits(gpu, 22, 1) = 1
    /\ StatusBits(gpu, 13, 1) = 1

============================================================================
